---- MODULE Spec2Model ----
(***************************************************************************)
(* Model of the front end of the SEP dashboard:                            *)
(*   - SepSimulator (components/sep/SepSimulator.tsx): the weighted,       *)
(*     tiered scorecard with its category-minimum downgrade rules;         *)
(*   - useAuth (hooks/useAuth.ts): the login / logout session.             *)
(*                                                                         *)
(* Numbers.  KPI values and thresholds are kept in tenths (the finest     *)
(* slider step is 0.1), so 1.3 is 13 and 85 is 850; they are only ever     *)
(* compared.  Scores are JavaScript numbers, i.e. IEEE-754 binary64, and   *)
(* the level tests sit exactly on values such as 40, 60 and 75 that the    *)
(* sums of thirds reach or miss by one rounding, so scores are modelled    *)
(* as binary64 values with round-to-nearest-even (section "binary64").     *)
(***************************************************************************)
EXTENDS Integers, Sequences, FiniteSets, TLC

VARIABLES inputs, result, config, env, user, error, storage, view,
          file, store, response, series, data, lltiMoyenne, state, uploads

vars == <<inputs, result, config, env, user, error, storage, view, file, store, response,
         series, data, lltiMoyenne, state, uploads>>

simVars == <<inputs, result, config>>
authVars == <<env, user, error, storage>>
appVars == <<view>>
prodVars == <<file, store, response>>
driverVars == <<series, data>>
dashVars == <<lltiMoyenne>>
uploadVars == <<state, uploads>>

----------------------------------------------------------------------------
(* binary64.  A non-negative number x is the triple <<l2, l1, l0>> of      *)
(* 24-bit limbs with x = (l2*2^48 + l1*2^24 + l0) * 2^-60.  Every value    *)
(* the simulator computes is 0 or lies in [2^-7, 2^7), where a binary64    *)
(* value is a multiple of 2^-59, so the representation is exact and        *)
(* rounding to 53 significant bits only ever drops bits of l0.             *)

Limb == 2^24

FZero == <<0, 0, 0>>

\* The integer n (0 <= n < 2^7) as a binary64 value.
FromInt(n) == <<n * 2^12, 0, 0>>

\* Number of significant bits of the limb n (0 <= n < 2^24), by bisection.
BitLen(n) ==
    IF n < 4096
    THEN IF n < 64
         THEN IF n < 8
              THEN (IF n < 2 THEN n ELSE IF n < 4 THEN 2 ELSE 3)
              ELSE (IF n < 16 THEN 4 ELSE IF n < 32 THEN 5 ELSE 6)
         ELSE IF n < 512
              THEN (IF n < 128 THEN 7 ELSE IF n < 256 THEN 8 ELSE 9)
              ELSE (IF n < 1024 THEN 10 ELSE IF n < 2048 THEN 11 ELSE 12)
    ELSE IF n < 262144
         THEN IF n < 32768
              THEN (IF n < 8192 THEN 13 ELSE IF n < 16384 THEN 14 ELSE 15)
              ELSE (IF n < 65536 THEN 16 ELSE IF n < 131072 THEN 17 ELSE 18)
         ELSE IF n < 2097152
              THEN (IF n < 524288 THEN 19 ELSE IF n < 1048576 THEN 20 ELSE 21)
              ELSE (IF n < 4194304 THEN 22 ELSE IF n < 8388608 THEN 23 ELSE 24)

\* Carry propagation of a triple whose limbs may exceed the limb base.
Carry(x) ==
    LET c0 == x[3] \div Limb
        m1 == x[2] + c0
        c1 == m1 \div Limb
    IN  <<x[1] + c1, m1 % Limb, x[3] % Limb>>

\* Round-to-nearest, ties-to-even, to 53 significant bits.  sticky says
\* that the exact value lies strictly above x (bits lost by a division).
RoundNearestEven(x, sticky) ==
    LET r    == (48 + BitLen(x[1])) - 53
        p    == 2^r
        rem  == x[3] % p
        q0   == x[3] \div p
        half == p \div 2
        up   == \/ rem > half
                \/ rem = half /\ (sticky \/ q0 % 2 = 1)
    IN  IF x[1] = 0 \/ r <= 0 THEN x
        ELSE Carry(<<x[1], x[2], (IF up THEN q0 + 1 ELSE q0) * p>>)

\* x + y
FAdd(x, y) == RoundNearestEven(Carry(<<x[1] + y[1], x[2] + y[2], x[3] + y[3]>>), FALSE)

\* x * n for an integer-valued n (1 <= n <= 100)
FMulInt(x, n) == RoundNearestEven(Carry(<<x[1] * n, x[2] * n, x[3] * n>>), FALSE)

\* x / d for an integer-valued d (1 <= d <= 60)
FDivInt(x, d) ==
    LET q2 == x[1] \div d
        r2 == x[1] % d
        q1 == (r2 * Limb + x[2]) \div d
        r1 == (r2 * Limb + x[2]) % d
        q0 == (r1 * Limb + x[3]) \div d
        r0 == (r1 * Limb + x[3]) % d
    IN  RoundNearestEven(<<q2, q1, q0>>, r0 > 0)

FLt(x, y) ==
    \/ x[1] < y[1]
    \/ x[1] = y[1] /\ x[2] < y[2]
    \/ x[1] = y[1] /\ x[2] = y[2] /\ x[3] < y[3]

FGe(x, y) == ~FLt(x, y)
FLe(x, y) == ~FLt(y, x)

----------------------------------------------------------------------------
(* SepSimulator.tsx: types and constants *)

\* KpiConfig records; targets in tenths.  A config without `inverse` in the
\* source has inverse = FALSE here (an absent field is falsy in `if`).
Kpi(id, weight, emerging, advanced, excellent, inverse) ==
    [id |-> id, weight |-> weight,
     targets |-> [emerging |-> emerging, advanced |-> advanced, excellent |-> excellent],
     inverse |-> inverse]

\* Mutant: a mistyped weight (13 for 12) in the Foundation table.
FOUNDATION_KPIS_heavy == <<
    Kpi("service_rif",          13,  13,   8,   5, TRUE),
    Kpi("tech_productivity",     6, 780, 820, 850, FALSE),
    Kpi("tech_capacity",         6, 940, 960, 980, FALSE),
    Kpi("llti",                  5, 170, 120,  70, TRUE),
    Kpi("tech_capability",       6, 600, 850, 950, FALSE),
    Kpi("service_data_quality",  5, 850, 900, 950, FALSE) >>

FOUNDATION_KPIS == <<
    Kpi("service_rif",          12,  13,   8,   5, TRUE),
    Kpi("tech_productivity",     6, 780, 820, 850, FALSE),
    Kpi("tech_capacity",         6, 940, 960, 980, FALSE),
    Kpi("llti",                  5, 170, 120,  70, TRUE),
    Kpi("tech_capability",       6, 600, 850, 950, FALSE),
    Kpi("service_data_quality",  5, 850, 900, 950, FALSE) >>

GROWTH_KPIS == <<
    Kpi("service_response",     10, 750, 850, 950, FALSE),
    Kpi("cva_fulfillment",      12, 700, 800, 900, FALSE),
    Kpi("inspection_rate",      12, 500, 650, 800, FALSE),
    Kpi("remote_service",        8, 400, 600, 800, FALSE),
    Kpi("cva_pm_coverage",      10, 600, 750, 900, FALSE),
    Kpi("cma_recommendation",    8, 500, 700, 900, FALSE) >>

Range(seq) == {seq[i] : i \in DOMAIN seq}

ALL_KPIS == FOUNDATION_KPIS \o GROWTH_KPIS
KpiIds == {k.id : k \in Range(ALL_KPIS)}
KpiById == [id \in KpiIds |-> CHOOSE k \in Range(ALL_KPIS) : k.id = id]

\* useState initial value of `inputs`
InitialInputs ==
    [id \in KpiIds |->
        CASE id = "service_rif"          -> 10
          [] id = "tech_productivity"    -> 800
          [] id = "tech_capacity"        -> 950
          [] id = "llti"                 -> 100
          [] id = "tech_capability"      -> 700
          [] id = "service_data_quality" -> 880
          [] id = "service_response"     -> 800
          [] id = "cva_fulfillment"      -> 750
          [] id = "inspection_rate"      -> 600
          [] id = "remote_service"       -> 500
          [] id = "cva_pm_coverage"      -> 700
          [] id = "cma_recommendation"   -> 600]

\* A JavaScript value that may be null or undefined is a set holding at most
\* one value; the empty set is null, or undefined.
null == {}

----------------------------------------------------------------------------
(* JavaScript values.  `inputs[kpi.id]` is a number, or undefined when the *)
(* key is absent; a relational comparison with undefined (ToNumber gives   *)
(* NaN) is false.                                                          *)

undefined == {}
\* Mutant: an absent key read as the value 0 instead of undefined.
Lookup_defaultZero(obj, key) == IF key \in DOMAIN obj THEN {obj[key]} ELSE {0}

Lookup(obj, key) == IF key \in DOMAIN obj THEN {obj[key]} ELSE undefined
JsLe(val, t) == \E v \in val : v <= t
JsGe(val, t) == \E v \in val : v >= t

----------------------------------------------------------------------------
(* SepSimulator.tsx: calculation logic *)

\* Mutant: strict comparisons, a value on a threshold earns the lower tier.
calcPoints_strict(val, cfg) ==
    IF cfg.inverse
    THEN IF \E v \in val : v < cfg.targets.excellent THEN 3
         ELSE IF \E v \in val : v < cfg.targets.advanced THEN 2
         ELSE IF \E v \in val : v < cfg.targets.emerging THEN 1
         ELSE 0
    ELSE IF \E v \in val : v > cfg.targets.excellent THEN 3
         ELSE IF \E v \in val : v > cfg.targets.advanced THEN 2
         ELSE IF \E v \in val : v > cfg.targets.emerging THEN 1
         ELSE 0

\* Mutant: the advanced and emerging tiers of a non-inverse KPI earn each
\* other's points
calcPoints_swapped(val, cfg) ==
    IF cfg.inverse
    THEN IF JsLe(val, cfg.targets.excellent) THEN 3
         ELSE IF JsLe(val, cfg.targets.advanced) THEN 2
         ELSE IF JsLe(val, cfg.targets.emerging) THEN 1
         ELSE 0
    ELSE IF JsGe(val, cfg.targets.excellent) THEN 3
         ELSE IF JsGe(val, cfg.targets.advanced) THEN 1
         ELSE IF JsGe(val, cfg.targets.emerging) THEN 2
         ELSE 0

calcPoints(val, cfg) ==
    IF cfg.inverse
    THEN IF JsLe(val, cfg.targets.excellent) THEN 3
         ELSE IF JsLe(val, cfg.targets.advanced) THEN 2
         ELSE IF JsLe(val, cfg.targets.emerging) THEN 1
         ELSE 0
    ELSE IF JsGe(val, cfg.targets.excellent) THEN 3
         ELSE IF JsGe(val, cfg.targets.advanced) THEN 2
         ELSE IF JsGe(val, cfg.targets.emerging) THEN 1
         ELSE 0

\* Mutant: integer division, Math.floor(points / 3) * kpi.weight.
WeightedScore_floor(points, weight) == FMulInt(FromInt(points \div 3), weight)

\* (points / 3) * kpi.weight
WeightedScore(points, weight) == FMulInt(FDivInt(FromInt(points), 3), weight)

\* WeightedScore over the points and the weights of the KPIs, evaluated once.
WeightedScoreOf ==
    [points \in 0..3, weight \in {k.weight : k \in Range(ALL_KPIS)} |->
        WeightedScore(points, weight)]

DetailLevel(points) ==
    IF points = 3 THEN "Exec" ELSE IF points = 2 THEN "Adv"
    ELSE IF points = 1 THEN "Emerg" ELSE "-"

\* One forEach callback: details[kpi.id] = { points, score, level }
KpiDetail(inp, kpi) ==
    LET points == calcPoints(Lookup(inp, kpi.id), kpi)
    IN  [points |-> points,
         score  |-> WeightedScoreOf[points, kpi.weight],
         level  |-> DetailLevel(points)]

\* The accumulator of a forEach loop after its first n KPIs: score += score,
\* with the score the callback stored in details[kpi.id]
RECURSIVE SumScores(_, _, _)
SumScores(kpis, details, n) ==
    IF n = 0 THEN FZero
    ELSE FAdd(SumScores(kpis, details, n - 1), details[kpis[n].id].score)

\* Mutant: strict comparisons, a total on a boundary gets the lower level.
BaseLevel_strict(total) ==
    IF FLt(FromInt(75), total) THEN "Gold"
    ELSE IF FLt(FromInt(60), total) THEN "Silver"
    ELSE IF FLt(FromInt(40), total) THEN "Bronze"
    ELSE "Non-Scoring"

\* Base level
BaseLevel(total) ==
    IF FGe(total, FromInt(75)) THEN "Gold"
    ELSE IF FGe(total, FromInt(60)) THEN "Silver"
    ELSE IF FGe(total, FromInt(40)) THEN "Bronze"
    ELSE "Non-Scoring"

\* (score / max) * 100
CategoryPct(score, max) == FMulInt(FDivInt(score, max), 100)

\* Mutant: && for ||, Gold is kept unless both categories are below 60%.
GoldCheck_both(st, foundPct, growthPct) ==
    IF st.level = "Gold" /\ (FLt(foundPct, FromInt(60)) /\ FLt(growthPct, FromInt(60)))
    THEN [level |-> "Silver", downgraded |-> TRUE]
    ELSE st

\* if (level === "Gold") { if (foundPct < 60 || growthPct < 60) ... }
GoldCheck(st, foundPct, growthPct) ==
    IF st.level = "Gold" /\ (FLt(foundPct, FromInt(60)) \/ FLt(growthPct, FromInt(60)))
    THEN [level |-> "Silver", downgraded |-> TRUE]
    ELSE st

\* Mutant: the Foundation percentage is not looked at.
SilverCheck_growthOnly(st, foundPct, growthPct) ==
    IF st.level = "Silver" /\ ~st.downgraded /\ FLt(growthPct, FromInt(40))
    THEN [level |-> "Bronze", downgraded |-> TRUE]
    ELSE st

\* Mutant: the level is lowered but the flag is not set.
SilverCheck_noFlag(st, foundPct, growthPct) ==
    IF st.level = "Silver" /\ ~st.downgraded
       /\ (FLt(foundPct, FromInt(40)) \/ FLt(growthPct, FromInt(40)))
    THEN [level |-> "Bronze", downgraded |-> st.downgraded]
    ELSE st

\* if (level === "Silver" && !downgraded) { if (foundPct < 40 || growthPct < 40) ... }
SilverCheck(st, foundPct, growthPct) ==
    IF st.level = "Silver" /\ ~st.downgraded
       /\ (FLt(foundPct, FromInt(40)) \/ FLt(growthPct, FromInt(40)))
    THEN [level |-> "Bronze", downgraded |-> TRUE]
    ELSE st

\* The SimulationResult handed to setResult
calculateScore(inp) ==
    LET details     == [id \in KpiIds |-> KpiDetail(inp, KpiById[id])]
        foundScore  == SumScores(FOUNDATION_KPIS, details, Len(FOUNDATION_KPIS))
        growthScore == SumScores(GROWTH_KPIS, details, Len(GROWTH_KPIS))
        total       == FAdd(foundScore, growthScore)
        foundPct    == CategoryPct(foundScore, 40)
        growthPct   == CategoryPct(growthScore, 60)
        base        == [level |-> BaseLevel(total), downgraded |-> FALSE]
        final       == SilverCheck(GoldCheck(base, foundPct, growthPct), foundPct, growthPct)
    IN  [foundationScore |-> foundScore,
         growthScore     |-> growthScore,
         totalScore      |-> total,
         level           |-> final.level,
         downgraded      |-> final.downgraded,
         details         |-> details]

\* The two KPI tables the module is built with
ShippedConfig == [foundation |-> FOUNDATION_KPIS, growth |-> GROWTH_KPIS]

\* calculateScore() in a build whose KPI tables are cfg: the same statements
\* over cfg.foundation and cfg.growth, the divisors 40 and 60 as written
calculateScoreOf(cfg, inp) ==
    LET kpis        == cfg.foundation \o cfg.growth
        detail(kpi) == LET points == calcPoints(Lookup(inp, kpi.id), kpi)
                       IN  [points |-> points,
                            score  |-> WeightedScore(points, kpi.weight),
                            level  |-> DetailLevel(points)]
        details     == [id \in {k.id : k \in Range(kpis)} |->
                           detail(CHOOSE k \in Range(kpis) : k.id = id)]
        foundScore  == SumScores(cfg.foundation, details, Len(cfg.foundation))
        growthScore == SumScores(cfg.growth, details, Len(cfg.growth))
        total       == FAdd(foundScore, growthScore)
        foundPct    == CategoryPct(foundScore, 40)
        growthPct   == CategoryPct(growthScore, 60)
        base        == [level |-> BaseLevel(total), downgraded |-> FALSE]
        final       == SilverCheck(GoldCheck(base, foundPct, growthPct), foundPct, growthPct)
    IN  {[foundationScore |-> foundScore,
          growthScore     |-> growthScore,
          totalScore      |-> total,
          level           |-> final.level,
          downgraded      |-> final.downgraded,
          details         |-> details]}

----------------------------------------------------------------------------
(* SepSimulator: the component as a state machine *)

\* The values a slider is moved to, per KPI, in tenths: a sample of the
\* slider's range that holds the initial value and values on and next to
\* the thresholds.
SliderSample ==
    [id \in KpiIds |->
        CASE id = "service_rif"          -> {5, 10, 14}
          [] id = "tech_productivity"    -> {770, 800, 850}
          [] id = "tech_capacity"        -> {930, 950}
          [] id = "llti"                 -> {70, 100, 171}
          [] id = "tech_capability"      -> {590, 700}
          [] id = "service_data_quality" -> {840, 880}
          [] id = "service_response"     -> {800, 850, 950}
          [] id = "cva_fulfillment"      -> {750, 900}
          [] id = "inspection_rate"      -> {600, 800}
          [] id = "remote_service"       -> {500, 800}
          [] id = "cva_pm_coverage"      -> {700, 900}
          [] id = "cma_recommendation"   -> {600, 900}]

\* calculateScore() run by the mount effect or by the "Recalculer" button
Recalculate ==
    /\ result' = {calculateScore(inputs)}
    /\ UNCHANGED <<inputs, config>>
    /\ UNCHANGED <<authVars, appVars, prodVars, driverVars, dashVars, uploadVars>>

\* handleChange(id, val) from a slider, then the [inputs] effect
handleChange(id, val) ==
    /\ inputs' = [inputs EXCEPT ![id] = val]
    /\ result' = {calculateScore(inputs')}
    /\ UNCHANGED config
    /\ UNCHANGED <<authVars, appVars, prodVars, driverVars, dashVars, uploadVars>>

----------------------------------------------------------------------------
(* Strings.  A string is the sequence of its characters, so that trim(),   *)
(* toLowerCase() and endsWith() do to it what they do in JavaScript.       *)

UpperCase == <<"A", "B", "C", "D", "E", "F", "G", "H", "I", "J", "K", "L", "M",
               "N", "O", "P", "Q", "R", "S", "T", "U", "V", "W", "X", "Y", "Z">>
LowerCase == <<"a", "b", "c", "d", "e", "f", "g", "h", "i", "j", "k", "l", "m",
               "n", "o", "p", "q", "r", "s", "t", "u", "v", "w", "x", "y", "z">>
WhiteSpace == {" ", "\t", "\n"}

toLowerCase(s) ==
    [i \in 1..Len(s) |->
        IF \E j \in DOMAIN UpperCase : UpperCase[j] = s[i]
        THEN LowerCase[CHOOSE j \in DOMAIN UpperCase : UpperCase[j] = s[i]]
        ELSE s[i]]

RECURSIVE trimStart(_)
trimStart(s) ==
    IF Len(s) > 0 /\ s[1] \in WhiteSpace THEN trimStart(SubSeq(s, 2, Len(s))) ELSE s

RECURSIVE trimEnd(_)
trimEnd(s) ==
    IF Len(s) > 0 /\ s[Len(s)] \in WhiteSpace THEN trimEnd(SubSeq(s, 1, Len(s) - 1)) ELSE s

trim(s) == trimEnd(trimStart(s))

\* Variant: String.prototype.includes in place of endsWith
endsWith_includes(s, suffix) ==
    \E i \in 1..(Len(s) - Len(suffix) + 1) : SubSeq(s, i, i + Len(suffix) - 1) = suffix

\* String.prototype.endsWith
endsWith(s, suffix) ==
    /\ Len(s) >= Len(suffix)
    /\ SubSeq(s, Len(s) - Len(suffix) + 1, Len(s)) = suffix

\* a || b on strings that may be undefined: "" and undefined are falsy
JsOr(a, b) == IF \E v \in a : Len(v) > 0 THEN a ELSE b

\* "@neemba.com"
AtNeembaCom == <<"@", "n", "e", "e", "m", "b", "a", ".", "c", "o", "m">>

----------------------------------------------------------------------------
(* config/constants.ts and hooks/useAuth.ts *)

\* The values of VITE_ADMIN_EMAIL the model is run with: none, or an
\* address with a blank and a capital
AdminEmailSample == {undefined, {<<" ", "T", "a", "f", "a">> \o AtNeembaCom}}

\* (import.meta.env.VITE_ADMIN_EMAIL || "admin@neemba.com").trim().toLowerCase(),
\* evaluated once per configuration as the module does when it is loaded
AdminEmailOf ==
    [configured \in AdminEmailSample |->
        LET raw == JsOr(configured, {<<"a", "d", "m", "i", "n">> \o AtNeembaCom})
        IN  toLowerCase(trim(CHOOSE v \in raw : TRUE))]

ADMIN_EMAIL == AdminEmailOf[env.VITE_ADMIN_EMAIL]

\* Variant: a built-in password when none is configured
ADMIN_PASSWORD_default ==
    LET raw == JsOr(env.VITE_ADMIN_PASSWORD, {<<"a", "d", "m", "i", "n">>})
    IN  CHOOSE v \in raw : TRUE

\* import.meta.env.VITE_ADMIN_PASSWORD || ""
ADMIN_PASSWORD ==
    LET raw == JsOr(env.VITE_ADMIN_PASSWORD, {<<>>})
    IN  CHOOSE v \in raw : TRUE

\* sessionStorage is a map from keys to strings; this is the one key in use.
AuthKey == "auth:user"

\* JSON.stringify(nextUser): the members in order, an undefined one left out.
JSONstringify(u) ==
    <<  <<"email", {u.email}>>, <<"role", {u.role}>> >>
        \o (IF u.adminPassword = undefined THEN <<>>
            ELSE << <<"adminPassword", u.adminPassword>> >>)

\* JSON.parse(raw) as User
JSONparse(raw) ==
    LET member(key) ==
            IF \E i \in DOMAIN raw : raw[i][1] = key
            THEN raw[CHOOSE i \in DOMAIN raw : raw[i][1] = key][2]
            ELSE undefined
    IN  [email         |-> CHOOSE v \in member("email") : TRUE,
         role          |-> CHOOSE v \in member("role") : TRUE,
         adminPassword |-> member("adminPassword")]

\* useState initialiser: the user kept in sessionStorage, or null
StoredUser ==
    IF AuthKey \in DOMAIN storage THEN {JSONparse(storage[AuthKey])} ELSE null

NoStorage == [k \in {} |-> <<>>]

\* The values of import.meta.env the model is run with.
EnvSample ==
    [VITE_ADMIN_EMAIL    : AdminEmailSample,
     VITE_ADMIN_PASSWORD : {undefined, {<<"c", "f", "g">>}}]

\* The emails typed into the login form: blanks around a local part and a
\* domain part.
EmailSample ==
    LET pads    == {<<>>, <<" ">>}
        locals  == {<<"a", "d", "m", "i", "n">>, <<"A", "d", "m", "i", "n">>,
                    <<"t", "a", "f", "a">>, <<"b", "o", "b">>,
                    <<"a", "d", "m", "i", "n", "-", "s", "e", "p">>}
        domains == {AtNeembaCom,
                    <<"@", "N", "E", "E", "M", "B", "A", ".", "C", "O", "M">>,
                    <<"@", "g", "m", "a", "i", "l", ".", "c", "o", "m">>,
                    AtNeembaCom \o <<".", "f", "r">>,
                    <<".", "n", "e", "e", "m", "b", "a", ".", "c", "o", "m">>}
    IN  {p \o l \o d \o p : p \in pads, l \in locals, d \in domains} \cup {<<>>}

\* email.trim().toLowerCase() of the emails typed into the form
NormalizedOf == [email \in EmailSample |-> toLowerCase(trim(email))]

\* The admin passwords handed to login: none, the empty string, a password.
\* (The login form hands over `password || undefined`.)
PasswordSample == {undefined, {<<>>}, {<<"p", "w">>}, {<<"x">>}}

\* Dashboard: no LLTI snapshot loaded
DashIdle == lltiMoyenne = null

\* useUpload: useState({ loading: false, error: null, result: null }), no
\* upload() called
UploadIdle ==
    /\ state = [loading |-> FALSE, error |-> null, result |-> null]
    /\ uploads = <<>>

\* No monthly series, no analytics loaded by the page
DriverIdle == series = [global |-> <<>>, teams |-> <<>>] /\ data = null

\* No file uploaded, an empty pointage table, no analytics asked for
ProdIdle == file = <<>> /\ store = {} /\ response = null

\* App before anybody navigates: useState(...)("sep")
AppIdle == view = "sep"

\* useAuth on an empty session, under any of the configurations
AuthInit ==
    /\ env \in EnvSample
    /\ storage = NoStorage
    /\ user = null
    /\ error = null
    /\ inputs = InitialInputs
    /\ result = null
    /\ config = ShippedConfig
    /\ AppIdle
    /\ ProdIdle
    /\ DriverIdle
    /\ DashIdle
    /\ UploadIdle

\* useAuth() run again on the same sessionStorage (the page is reloaded)
reload ==
    /\ user' = StoredUser
    /\ error' = null
    /\ UNCHANGED <<env, storage>>
    /\ UNCHANGED <<simVars, appVars, prodVars, driverVars, dashVars, uploadVars>>

\* Mutant: a login rejected for its domain sets the error and keeps the user
login_keepUser(email, adminPassword) ==
    LET normalized   == NormalizedOf[email]
        isAdminEmail == Len(ADMIN_EMAIL) > 0 /\ normalized = ADMIN_EMAIL
        role         == IF isAdminEmail THEN "admin" ELSE "guest"
        nextUser     == [email |-> normalized, role |-> role,
                         adminPassword |-> JsOr(adminPassword, {ADMIN_PASSWORD})]
    IN  /\ IF ~endsWith(normalized, AtNeembaCom)
           THEN /\ error' = {"Acces limite aux emails @neemba.com"}
                /\ UNCHANGED <<user, storage>>
           ELSE IF isAdminEmail
                   /\ ~(\E v \in JsOr(adminPassword, {ADMIN_PASSWORD}) : Len(v) > 0)
           THEN /\ error' = {"Mot de passe admin requis"}
                /\ user' = null
                /\ UNCHANGED storage
           ELSE /\ user' = {nextUser}
                /\ storage' = [k \in DOMAIN storage \cup {AuthKey} |->
                                  IF k = AuthKey THEN JSONstringify(nextUser)
                                  ELSE storage[k]]
                /\ error' = null
        /\ UNCHANGED env
        /\ UNCHANGED <<simVars, appVars, prodVars, driverVars, dashVars, uploadVars>>

login(email, adminPassword) ==
    LET normalized   == NormalizedOf[email]
        isAdminEmail == Len(ADMIN_EMAIL) > 0 /\ normalized = ADMIN_EMAIL
        role         == IF isAdminEmail THEN "admin" ELSE "guest"
        nextUser     == [email |-> normalized, role |-> role,
                         adminPassword |-> JsOr(adminPassword, {ADMIN_PASSWORD})]
    IN  /\ IF ~endsWith(normalized, AtNeembaCom)
           THEN /\ error' = {"Acces limite aux emails @neemba.com"}
                /\ user' = null
                /\ UNCHANGED storage
           ELSE IF isAdminEmail
                   /\ ~(\E v \in JsOr(adminPassword, {ADMIN_PASSWORD}) : Len(v) > 0)
           THEN /\ error' = {"Mot de passe admin requis"}
                /\ user' = null
                /\ UNCHANGED storage
           ELSE /\ user' = {nextUser}
                /\ storage' = [k \in DOMAIN storage \cup {AuthKey} |->
                                  IF k = AuthKey THEN JSONstringify(nextUser)
                                  ELSE storage[k]]
                /\ error' = null
        /\ UNCHANGED env
        /\ UNCHANGED <<simVars, appVars, prodVars, driverVars, dashVars, uploadVars>>

logout ==
    /\ user' = null
    /\ error' = null
    /\ storage' = [k \in DOMAIN storage \ {AuthKey} |-> storage[k]]
    /\ UNCHANGED env
    /\ UNCHANGED <<simVars, appVars, prodVars, driverVars, dashVars, uploadVars>>

\* useMemo(() => user?.role === "admin", [user])
isAdmin == \E u \in user : u.role = "admin"

AuthNext ==
    \/ \E email \in EmailSample : \E adminPassword \in PasswordSample :
           login(email, adminPassword)
    \/ logout
    \/ reload

\* The session nobody has touched: no configuration, nothing stored.
AuthIdle ==
    /\ env = [VITE_ADMIN_EMAIL |-> undefined, VITE_ADMIN_PASSWORD |-> undefined]
    /\ storage = NoStorage
    /\ user = null
    /\ error = null

----------------------------------------------------------------------------
(* App.tsx: the view shown to the logged-in user, and SuiviSepMeeting's  *)
(* own access check                                                       *)

\* Array.prototype.includes
includes(list, x) == \E i \in DOMAIN list : list[i] = x

\* [...].filter(Boolean) on a list of strings
filterBoolean(list) == SelectSeq(list, LAMBDA x : Len(x) > 0)

\* App.tsx: ["admin-sep@neemba.com"].map(email => email.trim().toLowerCase())
ALLOWED_ADMINS ==
    LET list == << <<"a", "d", "m", "i", "n", "-", "s", "e", "p">> \o AtNeembaCom >>
    IN  [i \in DOMAIN list |-> toLowerCase(trim(list[i]))]

\* App.tsx: canAccessSepm (false without a user or with an empty email)
canAccessSepm ==
    \E u \in user : Len(u.email) > 0 /\ includes(ALLOWED_ADMINS, toLowerCase(u.email))

\* SuiviSepMeeting.tsx: DEFAULT_EMAIL
DEFAULT_EMAIL ==
    LET raw == JsOr(env.VITE_ADMIN_EMAIL, {<<"a", "d", "m", "i", "n">> \o AtNeembaCom})
    IN  toLowerCase(trim(CHOOSE v \in raw : TRUE))

\* SuiviSepMeeting.tsx: ALLOWED_ADMINS = [DEFAULT_EMAIL].filter(Boolean)
SuiviSepMeeting_ALLOWED_ADMINS == filterBoolean(<<DEFAULT_EMAIL>>)

\* SuiviSepMeeting.tsx: userEmail = auth.user?.email?.toLowerCase() || ""
userEmail == IF user = null THEN <<>> ELSE toLowerCase((CHOOSE u \in user : TRUE).email)

\* SuiviSepMeeting.tsx: isAllowed; when false the page shows "Acces Restreint"
isAllowed == includes(SuiviSepMeeting_ALLOWED_ADMINS, userEmail)

setView(v) ==
    /\ view' = v
    /\ UNCHANGED <<simVars, authVars, prodVars, driverVars, dashVars, uploadVars>>

\* header button "Dashboard SEP", shown to a logged-in user
openSep == user # null /\ setView("sep")

\* header button "Admin", rendered only when canAccessSepm
openSepm == user # null /\ canAccessSepm /\ setView("sepm")

\* SuiviSepMeeting's "Retour" button: onBack={() => setView("sep")}
onBack == user # null /\ view = "sepm" /\ setView("sep")

\* The Login page is rendered only while nobody is logged in.
AppLogin(email, adminPassword) == user = null /\ login(email, adminPassword)

\* The logout button is rendered only for a logged-in user; App's view
\* is not touched by auth.logout.
AppLogout == user # null /\ logout

\* The page is loaded again: App and useAuth start from their initial state.
AppMount ==
    /\ user' = StoredUser
    /\ error' = null
    /\ view' = "sep"
    /\ UNCHANGED <<env, storage>>
    /\ UNCHANGED <<simVars, prodVars, driverVars, dashVars, uploadVars>>

AppInit ==
    /\ env \in EnvSample
    /\ storage = NoStorage
    /\ user = null
    /\ error = null
    /\ view = "sep"
    /\ inputs = InitialInputs
    /\ result = null
    /\ config = ShippedConfig
    /\ ProdIdle
    /\ DriverIdle
    /\ DashIdle
    /\ UploadIdle

AppNext ==
    \/ \E email \in EmailSample : \E adminPassword \in PasswordSample :
           AppLogin(email, adminPassword)
    \/ AppLogout
    \/ AppMount
    \/ openSep
    \/ openSepm
    \/ onBack

AppSpec == AppInit /\ [][AppNext]_vars

----------------------------------------------------------------------------
(* The productivity pipeline: upload of a pointage file into the table    *)
(* `pointage`, then the analytics computed from the table.  Hours are     *)
(* whole numbers; a date is the number of days since 2025-01-01; a ratio  *)
(* is a fraction <<numerator, denominator>> in lowest terms.              *)

NaN == {}

\* Technicians and teams, in the order a sort puts them
Technicians == <<"t1", "t2">>
Equipes == <<"A", "B">>

IndexOf(list, x) == CHOOSE i \in DOMAIN list : list[i] = x

\* month_num of a date (January and February 2025)
MonthOf(date) == IF date < 31 THEN 1 ELSE 2

RECURSIVE GCD(_, _)
GCD(a, b) == IF b = 0 THEN a ELSE GCD(b, a % b)

Frac(n, d) == <<n \div GCD(n, d), d \div GCD(n, d)>>

\* Variant: a division that lets x/0 through as a huge value
SafeRatio_inf(f, h) == IF h = 0 THEN (IF f = 0 THEN <<0, 1>> ELSE <<1, 0>>) ELSE Frac(f, h)

\* facturable / heures, with 0/0 and x/0 replaced by 0
SafeRatio(f, h) == IF h = 0 THEN <<0, 1>> ELSE Frac(f, h)

\* fillna(0)
fillna0(v) == IF v = NaN THEN 0 ELSE CHOOSE n \in v : TRUE

\* prepare_productivity_df: numeric columns with NaN replaced by 0, and the
\* row-by-row productivite column (NaN when the row has no hours)
prepare_productivity_df(df) ==
    [i \in DOMAIN df |->
        LET f == fillna0(df[i].Facturable)
            h == fillna0(df[i].Hr_Totale)
        IN  [date |-> df[i].date, nom |-> df[i].nom, equipe |-> df[i].equipe,
             Facturable |-> f, heures_travaillees |-> h,
             month_num |-> MonthOf(df[i].date),
             productivite |-> IF h = 0 THEN NaN ELSE {Frac(f, h)}]]

\* df[col].sum() over the rows with index in I
RECURSIVE SumColumn(_, _, _)
SumColumn(df, I, col) ==
    IF I = {} THEN 0
    ELSE LET i == CHOOSE i \in I : TRUE
         IN  df[i][col] + SumColumn(df, I \ {i}, col)

\* groupby([date, nom, equipe]).agg(facturable = sum, heures_total = sum)
grouped(df) ==
    LET keys == {<<df[i].date, df[i].nom, df[i].equipe>> : i \in DOMAIN df}
        rowsOf(k) == {i \in DOMAIN df : <<df[i].date, df[i].nom, df[i].equipe>> = k}
    IN  {[jour |-> k[1], technicien |-> k[2], equipe |-> k[3],
          facturable   |-> SumColumn(df, rowsOf(k), "Facturable"),
          heures_total |-> SumColumn(df, rowsOf(k), "heures_travaillees")] : k \in keys}

\* The order of the groups of a groupby: by date, then name, then team
GroupBefore(a, b) ==
    \/ a.jour < b.jour
    \/ a.jour = b.jour /\ IndexOf(Technicians, a.technicien) < IndexOf(Technicians, b.technicien)
    \/ a.jour = b.jour /\ a.technicien = b.technicien
           /\ IndexOf(Equipes, a.equipe) < IndexOf(Equipes, b.equipe)

RECURSIVE SortGroups(_)
SortGroups(G) ==
    IF G = {} THEN <<>>
    ELSE LET first == CHOOSE g \in G : \A h \in G \ {g} : GroupBefore(g, h)
         IN  <<first>> \o SortGroups(G \ {first})

\* Variant: rows of one technician and day are added up across teams
Upsert_add(table, row) ==
    LET old == {r \in table : r.technicien = row.technicien /\ r.jour = row.jour}
    IN  (table \ old) \cup
        {[row EXCEPT !.facturable = @ + SumColumn([r \in old |-> r], old, "facturable"),
                     !.heures_total = @ + SumColumn([r \in old |-> r], old, "heures_total")]}

\* INSERT INTO pointage ... ON CONFLICT (technicien, jour) DO UPDATE: the
\* row of the same technician and day is replaced by the inserted one
Upsert(table, row) ==
    {r \in table : ~(r.technicien = row.technicien /\ r.jour = row.jour)} \cup {row}

RECURSIVE InsertAll(_, _)
InsertAll(table, rows) ==
    IF rows = <<>> THEN table
    ELSE InsertAll(Upsert(table, Head(rows)), Tail(rows))

\* load_from_db followed by prepare_productivity_df
load_from_db(table) ==
    {[date |-> r.jour, nom |-> r.technicien, equipe |-> r.equipe,
      Facturable |-> r.facturable, heures_travaillees |-> r.heures_total,
      month_num |-> MonthOf(r.jour),
      productivite |-> IF r.heures_total = 0 THEN NaN
                       ELSE {Frac(r.facturable, r.heures_total)}] : r \in table}

\* rows[col].sum()
RECURSIVE SumField(_, _)
SumField(rows, col) ==
    IF rows = {} THEN 0
    ELSE LET r == CHOOSE r \in rows : TRUE
         IN  r[col] + SumField(rows \ {r}, col)

\* The sum of the row-by-row productivite column, as a fraction
RECURSIVE SumRatios(_)
SumRatios(rows) ==
    IF rows = {} THEN <<0, 1>>
    ELSE LET r    == CHOOSE r \in rows : TRUE
             p    == CHOOSE p \in r.productivite : TRUE
             rest == SumRatios(rows \ {r})
         IN  Frac(p[1] * rest[2] + rest[1] * p[2], p[2] * rest[2])

\* Variant: the mean of the row-by-row productivite column
Agg_meanOfRatios(rows) ==
    LET withHours == {r \in rows : r.productivite # NaN}
        total     == SumRatios(withHours)
    IN  [facturable   |-> SumField(rows, "Facturable"),
         heures       |-> SumField(rows, "heures_travaillees"),
         productivite |-> IF withHours = {} THEN <<0, 1>>
                          ELSE Frac(total[1], total[2] * Cardinality(withHours))]

\* agg(facturable = sum, heures = sum); productivite = facturable / heures
Agg(rows) ==
    LET f == SumField(rows, "Facturable")
        h == SumField(rows, "heures_travaillees")
    IN  [facturable |-> f, heures |-> h, productivite |-> SafeRatio(f, h)]

\* Variant: the ratios of the two parts are averaged
combine_meanOfRatios(a, b) ==
    [facturable   |-> a.facturable + b.facturable,
     heures       |-> a.heures + b.heures,
     productivite |-> Frac(a.productivite[1] * b.productivite[2]
                               + b.productivite[1] * a.productivite[2],
                           2 * a.productivite[2] * b.productivite[2])]

\* Two aggregates recombined: the sums are added, the ratio is sum/sum again
combine(a, b) ==
    [facturable   |-> a.facturable + b.facturable,
     heures       |-> a.heures + b.heures,
     productivite |-> SafeRatio(a.facturable + b.facturable, a.heures + b.heures)]

\* df.groupby(col).agg(...)
GroupAgg(rows, col) ==
    [k \in {r[col] : r \in rows} |-> Agg({r \in rows : r[col] = k})]

\* Saturday or Sunday (2025-01-01 is a Wednesday)
IsWeekend(date) == (date + 2) % 7 \in {5, 6}

\* The expected hours of a working day and the tolerance around them
EXPECTED_HOURS == 8
TOLERANCE == 1

\* Variant: only the exact expected hours are Conforme, and hours within the
\* tolerance get no status
DayStatus_gap(weekend, hours) ==
    IF weekend THEN (IF hours = 0 THEN "Weekend OK" ELSE "Travail weekend")
    ELSE IF hours = 0 THEN "Non conforme"
    ELSE IF hours < EXPECTED_HOURS - TOLERANCE THEN "Incomplet"
    ELSE IF hours = EXPECTED_HOURS THEN "Conforme"
    ELSE IF hours > EXPECTED_HOURS + TOLERANCE THEN "Surpointage"
    ELSE ""

\* The status of one technician's day
DayStatus(weekend, hours) ==
    IF weekend THEN (IF hours = 0 THEN "Weekend OK" ELSE "Travail weekend")
    ELSE IF hours = 0 THEN "Non conforme"
    ELSE IF hours < EXPECTED_HOURS - TOLERANCE THEN "Incomplet"
    ELSE IF hours <= EXPECTED_HOURS + TOLERANCE THEN "Conforme"
    ELSE "Surpointage"

\* The dates of a period (a month), and the day of the month of a date
DatesOf(period) == IF period = 1 THEN 0..30 ELSE 31..58
DayOfMonth(date) == IF date < 31 THEN date + 1 ELSE date - 30

\* The exhaustivity matrix of one period: per technician and day of the
\* month, the hours and the status; per technician, the team
exhaustivity_matrix(table, period) ==
    LET rows  == {r \in table : MonthOf(r.jour) = period}
        techs == {r.technicien : r \in rows}
        hoursOf(t, date) ==
            SumField({r \in rows : r.technicien = t /\ r.jour = date}, "heures_total")
        dateOf(day) == CHOOSE date \in DatesOf(period) : DayOfMonth(date) = day
        days  == {DayOfMonth(date) : date \in DatesOf(period)}
    IN  [heures  |-> [t \in techs |-> [day \in days |-> hoursOf(t, dateOf(day))]],
         statuts |-> [t \in techs |-> [day \in days |->
                         DayStatus(IsWeekend(dateOf(day)), hoursOf(t, dateOf(day)))]],
         teams   |-> [t \in techs |-> (CHOOSE r \in rows : r.technicien = t).equipe]]

\* The response of /kpi/productivite/analytics
productivity_analytics(table) ==
    LET df      == load_from_db(table)
        periods == {MonthOf(r.jour) : r \in table}
    IN  [global       |-> Agg(df),
         monthly      |-> GroupAgg(df, "month_num"),
         technicians  |-> GroupAgg(df, "nom"),
         teams        |-> GroupAgg(df, "equipe"),
         exhaustivity |-> [periods    |-> periods,
                           per_period |-> [p \in periods |-> exhaustivity_matrix(table, p)]]]

\* ProductivityDetail.tsx: the style of a cell, by status
statusColor_noSurpointage(status) ==
    CASE status = "Weekend OK"      -> [color |-> "bg-slate-200/20",   text |-> "text-slate-200"]
      [] status = "Travail weekend" -> [color |-> "bg-purple-500/60",  text |-> "text-white"]
      [] status = "Non conforme"    -> [color |-> "bg-red-500/70",     text |-> "text-white"]
      [] status = "Incomplet"       -> [color |-> "bg-amber-400/70",   text |-> "text-black"]
      [] status = "Conforme"        -> [color |-> "bg-emerald-500/70", text |-> "text-white"]
      [] OTHER                      -> [color |-> "bg-white/5",        text |-> "text-white"]

statusColor(status) ==
    CASE status = "Weekend OK"      -> [color |-> "bg-slate-200/20",   text |-> "text-slate-200"]
      [] status = "Travail weekend" -> [color |-> "bg-purple-500/60",  text |-> "text-white"]
      [] status = "Non conforme"    -> [color |-> "bg-red-500/70",     text |-> "text-white"]
      [] status = "Incomplet"       -> [color |-> "bg-amber-400/70",   text |-> "text-black"]
      [] status = "Conforme"        -> [color |-> "bg-emerald-500/70", text |-> "text-white"]
      [] status = "Surpointage"     -> [color |-> "bg-blue-500/70",    text |-> "text-white"]
      [] OTHER                      -> [color |-> "bg-white/5",        text |-> "text-white"]

\* ProductivityDetail.tsx: one cell of the table of the selected month:
\* status = days[day], hours = hoursRow[day] ?? 0, cfg = statusColor(status || "")
Cell(exhaustivity, tech, day) ==
    LET days     == exhaustivity.statuts[tech]
        hoursRow == exhaustivity.heures[tech]
        status   == IF day \in DOMAIN days THEN days[day] ELSE ""
        hours    == IF day \in DOMAIN hoursRow THEN hoursRow[day] ELSE 0
    IN  [status |-> status, hours |-> hours, cfg |-> statusColor(status)]

\* One row of an uploaded file
FileRow(date, nom, equipe, f, h) ==
    [date |-> date, nom |-> nom, equipe |-> equipe, Facturable |-> f, Hr_Totale |-> h]

\* The rows the uploaded files are made of: two rows of one technician, day
\* and team; the same technician and day under another team; hours
\* billed without hours worked; empty cells; more billed than worked.
RowSample ==
    {FileRow(2,  "t1", "A", {8}, {8}),
     FileRow(2,  "t1", "A", {0}, {2}),
     FileRow(2,  "t1", "B", {4}, {8}),
     FileRow(2,  "t2", "B", {8}, {0}),
     FileRow(33, "t1", "A", NaN, NaN),
     FileRow(33, "t2", "B", {6}, {8}),
     FileRow(33, "t2", "A", {9}, {8}),
     FileRow(2,  "t2", "B", {2}, {4}),
     FileRow(33, "t1", "A", {7}, {7}),
     FileRow(3,  "t2", "B", {1}, {9}),
     FileRow(2,  "t2", "A", {3}, {9})}

MaxRows == 3

Files == UNION {[1..n -> RowSample] : n \in 0..MaxRows}

\* The table before the upload: empty, or holding rows of an earlier upload
StoreSample ==
    {{},
     {[jour |-> 2, technicien |-> "t1", equipe |-> "A", facturable |-> 5, heures_total |-> 8],
      [jour |-> 3, technicien |-> "t2", equipe |-> "B", facturable |-> 0, heures_total |-> 0],
      [jour |-> 33, technicien |-> "t2", equipe |-> "B", facturable |-> 6, heures_total |-> 12]}}

\* POST /kpi/productivite/upload
upload ==
    /\ store' = InsertAll(store, SortGroups(grouped(prepare_productivity_df(file))))
    /\ UNCHANGED <<file, response>>
    /\ UNCHANGED <<simVars, authVars, appVars, driverVars, dashVars, uploadVars>>

\* GET /kpi/productivite/analytics
analytics ==
    /\ response' = {productivity_analytics(store)}
    /\ UNCHANGED <<file, store>>
    /\ UNCHANGED <<simVars, authVars, appVars, driverVars, dashVars, uploadVars>>

ProdInit ==
    /\ file \in Files
    /\ store \in StoreSample
    /\ response = null
    /\ inputs = InitialInputs
    /\ result = null
    /\ config = ShippedConfig
    /\ AuthIdle
    /\ AppIdle
    /\ DriverIdle
    /\ DashIdle
    /\ UploadIdle

ProdNext ==
    \/ upload
    \/ analytics

ProdSpec == ProdInit /\ [][ProdNext]_vars

----------------------------------------------------------------------------
(* The driver analysis: the team whose monthly productivity series is most *)
(* similar to the global one.  A series gives a ratio (in percent) for     *)
(* some of the periods.  The similarity score is the correlation r of the  *)
(* two series over the periods they share, kept as the fraction            *)
(* r * |r| = cov * |cov| / (var * var), which ranks the teams as r does.   *)

Periods == 1..3

RECURSIVE SumProducts(_, _, _)
SumProducts(x, y, I) ==
    IF I = {} THEN 0
    ELSE LET i == CHOOSE i \in I : TRUE
         IN  x[i] * y[i] + SumProducts(x, y, I \ {i})

\* n * sum(x y) - sum(x) sum(y) over the periods I: n^2 times the covariance
Covariance(x, y, I) ==
    LET one == [i \in I |-> 1]
    IN  Cardinality(I) * SumProducts(x, y, I) - SumProducts(x, one, I) * SumProducts(y, one, I)

Abs(n) == IF n < 0 THEN -n ELSE n

\* The similarity score of a team's series against the global series: none
\* with fewer than two shared periods or with a constant series
similarity(global, team) ==
    LET I   == DOMAIN global \cap DOMAIN team
        cov == Covariance(global, team, I)
        den == Covariance(global, global, I) * Covariance(team, team, I)
    IN  IF Cardinality(I) < 2 \/ den = 0 THEN {}
        ELSE {<<(cov * Abs(cov)) \div GCD(cov * cov, den), den \div GCD(cov * cov, den)>>}

\* score a < score b
ScoreLess(a, b) == a[1] * b[2] < b[1] * a[2]

\* Variant: the team with the lowest score
driver_analysis_lowest(global, teams) ==
    LET scored   == {t \in DOMAIN teams : similarity(global, teams[t]) # {}}
        score(t) == CHOOSE s \in similarity(global, teams[t]) : TRUE
        best     == {t \in scored : \A u \in scored : ~ScoreLess(score(u), score(t))}
    IN  IF scored = {} THEN {null}
        ELSE {{[equipe |-> t, score |-> score(t)]} : t \in best}

\* The results the analysis may give: null without a scored team, else a
\* team with the highest score (any of them when several tie)
driver_analysis(global, teams) ==
    LET scored   == {t \in DOMAIN teams : similarity(global, teams[t]) # {}}
        score(t) == CHOOSE s \in similarity(global, teams[t]) : TRUE
        best     == {t \in scored : \A u \in scored : ~ScoreLess(score(t), score(u))}
    IN  IF scored = {} THEN {null}
        ELSE {{[equipe |-> t, score |-> score(t)]} : t \in best}

\* ProductivityDetail.tsx: driverTeam = data?.correlation ?? null
driverTeam == IF data = null THEN null ELSE (CHOOSE d \in data : TRUE).correlation

\* Variant: the card is always rendered
DriverCardShown_always == TRUE

\* ProductivityDetail.tsx: {driverTeam && (<Card> ... </Card>)}
DriverCardShown == driverTeam # null

\* The global series: three months, two, one, none
GlobalSample ==
    {[p \in 1..3 |-> <<70, 75, 80>>[p]], [p \in 1..2 |-> <<70, 75>>[p]],
     [p \in {2} |-> 75], <<>>}

\* The series of a team: tracking the global one, diverging from it,
\* constant, opposite to it, and over a part of the periods only
TeamSeriesSample ==
    {[p \in 1..3 |-> <<71, 76, 81>>[p]], [p \in 1..3 |-> <<80, 70, 75>>[p]],
     [p \in 1..3 |-> <<75, 75, 75>>[p]], [p \in 1..3 |-> <<80, 75, 70>>[p]],
     [p \in 1..3 |-> <<70, 72, 79>>[p]],
     [p \in 2..3 |-> <<0, 76, 70>>[p]], [p \in {3} |-> 81], [p \in {1} |-> 71]}

TeamNames == {"X", "Y"}

\* The page loads the analytics, whose correlation field is the driver
\* analysis of the monthly series
correlation ==
    /\ data' \in {{[correlation |-> c]} : c \in driver_analysis(series.global, series.teams)}
    /\ UNCHANGED series
    /\ UNCHANGED <<simVars, authVars, appVars, prodVars, dashVars, uploadVars>>

DriverInit ==
    /\ series \in {[global |-> g, teams |-> ts] :
                     g \in GlobalSample,
                     ts \in UNION {[names -> TeamSeriesSample] : names \in SUBSET TeamNames}}
    /\ data = null
    /\ inputs = InitialInputs
    /\ result = null
    /\ config = ShippedConfig
    /\ AuthIdle
    /\ AppIdle
    /\ ProdIdle
    /\ DashIdle
    /\ UploadIdle

DriverNext == correlation

DriverSpec == DriverInit /\ [][DriverNext]_vars

----------------------------------------------------------------------------
(* The simulator built with other KPI tables.  The tables are constants of *)
(* the module: nothing reads or checks them before calculateScore() runs.  *)

\* Growth table whose weights sum to 52: a weight left at 0
GROWTH_KPIS_light ==
    [i \in DOMAIN GROWTH_KPIS |->
        IF GROWTH_KPIS[i].id = "cma_recommendation"
        THEN [GROWTH_KPIS[i] EXCEPT !.weight = 0]
        ELSE GROWTH_KPIS[i]]

\* The tables as shipped, a Foundation table summing to 41, a Growth table
\* summing to 52
ConfigSample ==
    {ShippedConfig,
     [foundation |-> FOUNDATION_KPIS_heavy, growth |-> GROWTH_KPIS],
     [foundation |-> FOUNDATION_KPIS, growth |-> GROWTH_KPIS_light]}

\* calculateScore() run by the mount effect in the build with tables config
RecalculateOf ==
    /\ result' = calculateScoreOf(config, inputs)
    /\ UNCHANGED <<inputs, config>>
    /\ UNCHANGED <<authVars, appVars, prodVars, driverVars, dashVars, uploadVars>>

ConfigInit ==
    /\ config \in ConfigSample
    /\ \E id \in KpiIds : \E val \in SliderSample[id] :
           inputs = [InitialInputs EXCEPT !["service_rif"] = 5, ![id] = val]
                \/ inputs = [InitialInputs EXCEPT ![id] = val]
    /\ result = null
    /\ AuthIdle
    /\ AppIdle
    /\ ProdIdle
    /\ DriverIdle
    /\ DashIdle
    /\ UploadIdle

ConfigNext == RecalculateOf

ConfigSpec == ConfigInit /\ [][ConfigNext]_vars

----------------------------------------------------------------------------
(* The LLTI card of the Dashboard.  LLTI values are in tenths of a day, as *)
(* the slider values of the simulator are.                                 *)

\* Mutant: 21 days is no longer "Emerging"
getLltiBadge_strict(moyenne_llti) ==
    IF moyenne_llti < 70
    THEN [label |-> "Excellent", color |-> "text-emerald-200", bgColor |-> "bg-emerald-500/20"]
    ELSE IF moyenne_llti < 170
    THEN [label |-> "Advanced", color |-> "text-yellow-200", bgColor |-> "bg-yellow-500/20"]
    ELSE IF moyenne_llti < 210
    THEN [label |-> "Emerging", color |-> "text-orange-200", bgColor |-> "bg-orange-500/20"]
    ELSE [label |-> "À améliorer", color |-> "text-rose-200", bgColor |-> "bg-rose-500/20"]

\* analytics.ts: getLltiBadge
getLltiBadge(moyenne_llti) ==
    IF moyenne_llti < 70
    THEN [label |-> "Excellent", color |-> "text-emerald-200", bgColor |-> "bg-emerald-500/20"]
    ELSE IF moyenne_llti < 170
    THEN [label |-> "Advanced", color |-> "text-yellow-200", bgColor |-> "bg-yellow-500/20"]
    ELSE IF moyenne_llti <= 210
    THEN [label |-> "Emerging", color |-> "text-orange-200", bgColor |-> "bg-orange-500/20"]
    ELSE [label |-> "À améliorer", color |-> "text-rose-200", bgColor |-> "bg-rose-500/20"]

\* Dashboard.tsx: badge = lltiMoyenne != null ? getLltiBadge(lltiMoyenne) : null
badge == {getLltiBadge(v) : v \in lltiMoyenne}

\* Dashboard.tsx: the color of the LLTI ProgressCircle
lltiRingColor ==
    IF lltiMoyenne # null
    THEN LET v == CHOOSE v \in lltiMoyenne : TRUE
         IN  IF v < 70 THEN "emerald" ELSE IF v < 170 THEN "yellow"
             ELSE IF v <= 210 THEN "orange" ELSE "rose"
    ELSE "blue"

\* LLTI means from -1 to 30 days by tenths
LltiSample == -10..300

\* Dashboard.tsx: setLltiMoyenne(data.moyenne_llti) of the snapshot
setLltiMoyenne(value) ==
    /\ lltiMoyenne' = {value}
    /\ UNCHANGED <<simVars, authVars, appVars, prodVars, driverVars, uploadVars>>

DashInit ==
    /\ lltiMoyenne = null
    /\ inputs = InitialInputs
    /\ result = null
    /\ config = ShippedConfig
    /\ AuthIdle
    /\ AppIdle
    /\ ProdIdle
    /\ DriverIdle
    /\ UploadIdle

DashNext == \E value \in LltiSample : setLltiMoyenne(value)

DashSpec == DashInit /\ [][DashNext]_vars

----------------------------------------------------------------------------
(* hooks/useUpload.ts.  Every call of upload() is a promise of its own:    *)
(* uploads lists the calls in the order they were made, each with its file *)
(* and, once its request has settled, the outcome it wrote with setState.  *)

MaxUploads == 3

UploadFiles == {"a.csv", "b.xlsx"}

\* detail.detail || "Échec du téléversement", or the message of the fetch error
UploadErrors == {"Echec du televersement", "Failed to fetch"}

\* The UploadKpiResponse of the backend for a file
payload(f) == [message |-> "ok", kpi |-> f]

\* Mutant: a new upload only raises the loading flag, setState(prev =>
\* ({ ...prev, loading: true }))
useUpload_upload_keep(f) ==
    /\ Len(uploads) < MaxUploads
    /\ state' = [state EXCEPT !.loading = TRUE]
    /\ uploads' = Append(uploads, [file |-> f, settled |-> null])
    /\ UNCHANGED <<simVars, authVars, appVars, prodVars, driverVars, dashVars>>

\* upload(file) up to its first await: setState({ loading: true, error:
\* null, result: null }) and the request is sent
useUpload_upload(f) ==
    /\ Len(uploads) < MaxUploads
    /\ state' = [loading |-> TRUE, error |-> null, result |-> null]
    /\ uploads' = Append(uploads, [file |-> f, settled |-> null])
    /\ UNCHANGED <<simVars, authVars, appVars, prodVars, driverVars, dashVars>>

\* The request of call i answered ok: setState({ loading: false, error:
\* null, result: payload })
useUpload_fulfilled(i) ==
    /\ i \in DOMAIN uploads
    /\ uploads[i].settled = null
    /\ state' = [loading |-> FALSE, error |-> null, result |-> {payload(uploads[i].file)}]
    /\ uploads' = [uploads EXCEPT ![i].settled = {[error |-> state'.error, result |-> state'.result]}]
    /\ UNCHANGED <<simVars, authVars, appVars, prodVars, driverVars, dashVars>>

\* The request of call i failed or was answered with an error status: the
\* catch block, setState({ loading: false, error: message, result: null })
useUpload_rejected(i, message) ==
    /\ i \in DOMAIN uploads
    /\ uploads[i].settled = null
    /\ state' = [loading |-> FALSE, error |-> {message}, result |-> null]
    /\ uploads' = [uploads EXCEPT ![i].settled = {[error |-> state'.error, result |-> state'.result]}]
    /\ UNCHANGED <<simVars, authVars, appVars, prodVars, driverVars, dashVars>>

UploadInit ==
    /\ UploadIdle
    /\ inputs = InitialInputs
    /\ result = null
    /\ config = ShippedConfig
    /\ AuthIdle
    /\ AppIdle
    /\ ProdIdle
    /\ DriverIdle
    /\ DashIdle

UploadNext ==
    \/ \E f \in UploadFiles : useUpload_upload(f)
    \/ \E i \in 1..MaxUploads : useUpload_fulfilled(i)
    \/ \E i \in 1..MaxUploads : \E message \in UploadErrors : useUpload_rejected(i, message)

UploadSpec == UploadInit /\ [][UploadNext]_vars

\* The simulator after construction
Init ==
    /\ inputs = InitialInputs
    /\ result = null
    /\ config = ShippedConfig
    /\ AuthIdle
    /\ AppIdle
    /\ ProdIdle
    /\ DriverIdle
    /\ DashIdle
    /\ UploadIdle

Next ==
    \/ Recalculate
    \/ \E id \in KpiIds : \E val \in SliderSample[id] : handleChange(id, val)

Spec == Init /\ [][Next]_vars

----------------------------------------------------------------------------
(* calculateScore as a function of its inputs *)

\* <input type="range" min max step>: every position of a KPI's slider, in
\* tenths (inverse KPIs: 0..20 by 0.1; Foundation: 0..120; Growth: 0..100).
SliderRange(id) ==
    IF KpiById[id].inverse THEN 0..200
    ELSE IF KpiById[id] \in Range(FOUNDATION_KPIS) THEN {10 * n : n \in 0..120}
    ELSE {10 * n : n \in 0..100}

\* One slider anywhere in its range, the others at their initial position.
OneSliderInit ==
    /\ \E id \in KpiIds : \E val \in SliderRange(id) :
           inputs = [InitialInputs EXCEPT ![id] = val]
    /\ result = null
    /\ config = ShippedConfig
    /\ AuthIdle
    /\ AppIdle
    /\ ProdIdle
    /\ DriverIdle
    /\ DashIdle
    /\ UploadIdle

OneSliderNext == Recalculate

OneSliderSpec == OneSliderInit /\ [][OneSliderNext]_vars

\* Any subset of the observations absent; those present at their initial value.
MissingInit ==
    /\ \E present \in SUBSET KpiIds : inputs = [id \in present |-> InitialInputs[id]]
    /\ result = null
    /\ config = ShippedConfig
    /\ AuthIdle
    /\ AppIdle
    /\ ProdIdle
    /\ DriverIdle
    /\ DashIdle
    /\ UploadIdle

MissingNext == Recalculate

MissingSpec == MissingInit /\ [][MissingNext]_vars

\* useAuth alone, the simulator untouched
AuthSpec == AuthInit /\ [][AuthNext]_vars

----------------------------------------------------------------------------
(* Properties of the simulator *)

Levels == {"Gold", "Silver", "Bronze", "Non-Scoring"}

HasResult == result # null
Res == CHOOSE r \in result : TRUE

\* What the downgrade rules read: the base level and the category percentages
\* of the result on display.
ResultBase == BaseLevel(Res.totalScore)
ResultFoundPct == CategoryPct(Res.foundationScore, 40)
ResultGrowthPct == CategoryPct(Res.growthScore, 60)
SomePctBelow(n) ==
    FLt(ResultFoundPct, FromInt(n)) \/ FLt(ResultGrowthPct, FromInt(n))

\* Position of a level, best first.
Rank(level) ==
    CASE level = "Gold" -> 0 [] level = "Silver" -> 1
      [] level = "Bronze" -> 2 [] level = "Non-Scoring" -> 3

\* C1: a base level of Gold with some category percentage below 40 ends as
\* Bronze with downgraded = true (Gold to Silver, then Silver to Bronze).
C1_GoldCascadesToBronze ==
    (HasResult /\ ResultBase = "Gold" /\ SomePctBelow(40))
        => (Res.level = "Bronze" /\ Res.downgraded)

\* C2: calcPoints gives a value in 0..3, the tier of the value among the three
\* thresholds, a value equal to a threshold earning the higher tier: >= for a
\* normal KPI, <= for an inverse one.
C2_PointsAreTheTier ==
    HasResult =>
        \A id \in KpiIds :
            LET v == inputs[id]
                t == KpiById[id].targets
                p == Res.details[id].points
            IN  /\ p \in 0..3
                /\ IF KpiById[id].inverse
                   THEN /\ (p = 3) = (v <= t.excellent)
                        /\ (p = 2) = (t.excellent < v /\ v <= t.advanced)
                        /\ (p = 1) = (t.advanced < v /\ v <= t.emerging)
                        /\ (p = 0) = (t.emerging < v)
                   ELSE /\ (p = 3) = (v >= t.excellent)
                        /\ (p = 2) = (t.excellent > v /\ v >= t.advanced)
                        /\ (p = 1) = (t.advanced > v /\ v >= t.emerging)
                        /\ (p = 0) = (t.emerging > v)

\* C2 witness: thresholds 78/82/85, observed 85: 3 points, weighted score 6.
C2_Witness ==
    /\ HasResult
    /\ inputs["tech_productivity"] = 850
    /\ Res.details["tech_productivity"].points = 3
    /\ Res.details["tech_productivity"].score = FromInt(6)

\* C3: a base level of Gold with some category percentage below 60 does not
\* stay Gold and is flagged downgraded.
C3_GoldNeedsSixtyPercent ==
    (HasResult /\ ResultBase = "Gold" /\ SomePctBelow(60))
        => (Res.level # "Gold" /\ Res.downgraded)

C3_Witness ==
    /\ HasResult /\ ResultBase = "Gold"
    /\ FLt(ResultFoundPct, FromInt(60)) /\ ~SomePctBelow(40)
    /\ Res.level = "Silver" /\ Res.downgraded

\* C4: a base level of Silver with some category percentage below 40 ends as
\* Bronze with downgraded = true.
C4_SilverNeedsFortyPercent ==
    (HasResult /\ ResultBase = "Silver" /\ SomePctBelow(40))
        => (Res.level = "Bronze" /\ Res.downgraded)

C4_Witness ==
    /\ HasResult /\ ResultBase = "Silver" /\ SomePctBelow(40)
    /\ Res.level = "Bronze" /\ Res.downgraded

\* C5: only the two downgrade rules change the level: downgraded holds exactly
\* when the level differs from the base level; Bronze and Non-Scoring are
\* never changed; Silver with both categories at 40% or more stays Silver,
\* not downgraded; the level is at most two levels below the base level.
C5_OnlyDowngradesChangeLevel ==
    HasResult =>
        /\ Res.downgraded = (Res.level # ResultBase)
        /\ ResultBase \in {"Bronze", "Non-Scoring"} => Res.level = ResultBase
        /\ (ResultBase = "Silver" /\ ~SomePctBelow(40))
               => (Res.level = "Silver" /\ ~Res.downgraded)
        /\ Rank(Res.level) >= Rank(ResultBase)
        /\ Rank(Res.level) - Rank(ResultBase) <= 2

\* C5 witness: Foundation 20/40 (50%), Growth 42/60 (70%), total 62.
C5_Witness ==
    /\ HasResult
    /\ Res.foundationScore = FromInt(20)
    /\ Res.growthScore = FromInt(42)
    /\ Res.totalScore = FromInt(62)
    /\ Res.level = "Silver" /\ ~Res.downgraded

\* The base level as the result shows it: the level itself, or the level
\* above it when the result is flagged downgraded.
ObservedBase ==
    IF ~Res.downgraded THEN Res.level
    ELSE IF Res.level = "Silver" THEN "Gold" ELSE "Silver"

\* C6: the base level is Gold from a total of 75, Silver from 60, Bronze from
\* 40 and Non-Scoring below; 75, 60 and 40 belong to the higher level.
C6_BaseLevelOfTotal ==
    HasResult =>
        LET t == Res.totalScore
        IN  /\ (ObservedBase = "Gold") = FGe(t, FromInt(75))
            /\ (ObservedBase = "Silver") = (FGe(t, FromInt(60)) /\ FLt(t, FromInt(75)))
            /\ (ObservedBase = "Bronze") = (FGe(t, FromInt(40)) /\ FLt(t, FromInt(60)))
            /\ (ObservedBase = "Non-Scoring") = FLt(t, FromInt(40))

\* C6 witness: each of the totals 75, 60 and 40 shown with the higher level.
C6_Witness ==
    /\ HasResult /\ ~Res.downgraded
    /\ \/ Res.totalScore = FromInt(75) /\ Res.level = "Gold"
       \/ Res.totalScore = FromInt(60) /\ Res.level = "Silver"
       \/ Res.totalScore = FromInt(40) /\ Res.level = "Bronze"

\* The binary64 sum, in list order, of the scores in details of the first n
\* KPIs of a category.
RECURSIVE SumOfDetails(_, _)
SumOfDetails(kpis, n) ==
    IF n = 0 THEN FZero
    ELSE FAdd(SumOfDetails(kpis, n - 1), Res.details[kpis[n].id].score)

\* Sum over a category of points * weight: three times the real-valued score.
RECURSIVE SumOfThirds(_, _)
SumOfThirds(kpis, n) ==
    IF n = 0 THEN 0
    ELSE SumOfThirds(kpis, n - 1) + Res.details[kpis[n].id].points * kpis[n].weight

\* 3 * x lies within 2^-36 of the integer n: x is n / 3 up to rounding.
IsThirdsOf(x, n) ==
    LET t == Carry(<<3 * x[1], 3 * x[2], 3 * x[3]>>)
    IN  \/ t[1] = n * 2^12 /\ t[2] = 0
        \/ t[1] = n * 2^12 - 1 /\ t[2] = Limb - 1

\* C7: each KPI's weighted score is (points / 3) * weight; each category score
\* is the sum of the weighted scores of its KPIs, every KPI counted once; the
\* total is foundationScore + growthScore.  The arithmetic is the program's
\* (binary64), and each score is the real-valued one up to rounding.
C7_ScoresAreWeightedSums ==
    HasResult =>
        /\ DOMAIN Res.details = KpiIds
        /\ \A i \in DOMAIN ALL_KPIS : \A j \in DOMAIN ALL_KPIS :
               ALL_KPIS[i].id = ALL_KPIS[j].id => i = j
        /\ \A id \in KpiIds :
               LET d == Res.details[id]
               IN  /\ d.score = FMulInt(FDivInt(FromInt(d.points), 3), KpiById[id].weight)
                   /\ IsThirdsOf(d.score, d.points * KpiById[id].weight)
        /\ Res.foundationScore = SumOfDetails(FOUNDATION_KPIS, Len(FOUNDATION_KPIS))
        /\ Res.growthScore = SumOfDetails(GROWTH_KPIS, Len(GROWTH_KPIS))
        /\ Res.totalScore = FAdd(Res.foundationScore, Res.growthScore)
        /\ IsThirdsOf(Res.foundationScore, SumOfThirds(FOUNDATION_KPIS, Len(FOUNDATION_KPIS)))
        /\ IsThirdsOf(Res.growthScore, SumOfThirds(GROWTH_KPIS, Len(GROWTH_KPIS)))
        /\ IsThirdsOf(Res.totalScore,
                      SumOfThirds(FOUNDATION_KPIS, Len(FOUNDATION_KPIS))
                          + SumOfThirds(GROWTH_KPIS, Len(GROWTH_KPIS)))

\* C7 witness: a result whose scores are not integers (thirds were rounded).
C7_Witness ==
    /\ HasResult
    /\ Res.details["llti"].points = 2
    /\ Res.details["service_response"].points = 2
    /\ Res.foundationScore[3] # 0
    /\ Res.totalScore[3] # 0

RECURSIVE SumOfWeights(_, _)
SumOfWeights(kpis, n) ==
    IF n = 0 THEN 0 ELSE SumOfWeights(kpis, n - 1) + kpis[n].weight

\* C8: the KPI weights sum to 40 for Foundation and to 60 for Growth, the
\* divisors of the category percentages, and in every result
\* 0 <= foundationScore <= 40, 0 <= growthScore <= 60, 0 <= totalScore <= 100.
C8_WeightsAndRanges ==
    /\ SumOfWeights(FOUNDATION_KPIS, Len(FOUNDATION_KPIS)) = 40
    /\ SumOfWeights(GROWTH_KPIS, Len(GROWTH_KPIS)) = 60
    /\ HasResult =>
        /\ FLe(FZero, Res.foundationScore) /\ FLe(Res.foundationScore, FromInt(40))
        /\ FLe(FZero, Res.growthScore) /\ FLe(Res.growthScore, FromInt(60))
        /\ FLe(FZero, Res.totalScore) /\ FLe(Res.totalScore, FromInt(100))

\* C8 witness: every Growth KPI at 3 points, growthScore at its maximum 60.
C8_Witness ==
    /\ HasResult
    /\ \A i \in DOMAIN GROWTH_KPIS : Res.details[GROWTH_KPIS[i].id].points = 3
    /\ Res.growthScore = FromInt(60)

\* C9: with any subset of the observations absent calculateScore still gives
\* a result with a level, and every KPI whose observation is absent, inverse
\* or not, has 0 points.
C9_MissingScoresZero ==
    HasResult =>
        /\ Res.level \in Levels
        /\ \A id \in KpiIds \ DOMAIN inputs :
               /\ Res.details[id].points = 0
               /\ Res.details[id].score = FZero

\* C9 witness: the inverse KPIs absent and scored 0; and nothing present at all.
C9_Witness ==
    /\ HasResult
    /\ \/ /\ DOMAIN inputs = KpiIds \ {"llti", "service_rif"}
          /\ Res.details["llti"].points = 0
          /\ Res.details["service_rif"].points = 0
       \/ DOMAIN inputs = {} /\ Res.level = "Non-Scoring"

----------------------------------------------------------------------------
(* Properties of useAuth *)

\* The last eleven characters of s are "@neemba.com".
IsNeembaAddress(s) ==
    /\ Len(s) >= 11
    /\ [i \in 1..11 |-> s[Len(s) - 11 + i]] = AtNeembaCom

\* C10 (state part): every logged-in user has a trimmed, lower-case email
\* that ends with "@neemba.com".
C10_UserIsNeemba ==
    \A u \in user :
        /\ IsNeembaAddress(u.email)
        /\ u.email = toLowerCase(trim(u.email))

\* The typed emails that do not end, once trimmed and lower-cased, with
\* "@neemba.com".
ForeignEmails ==
    {email \in EmailSample : ~IsNeembaAddress(toLowerCase(trim(email)))}

\* C10 (step part): a login whose normalized email does not end with
\* "@neemba.com" sets the error and sets the user to null.
C10_ForeignLoginRejected ==
    \A email \in ForeignEmails : \A adminPassword \in PasswordSample :
        login(email, adminPassword) => (user' = null /\ error' # null)

\* C10: access is limited to @neemba.com addresses: from an empty session,
\* after any logins and logouts, every user has a trimmed lower-case email
\* ending with "@neemba.com", and a login with any other email is rejected
\* (error set, user null), also when a user was logged in before.
C10_OnlyNeembaUsers == []C10_UserIsNeemba /\ [][C10_ForeignLoginRejected]_vars

\* C10 witness: a user had logged in (the session entry is still there) and a
\* later login was rejected for its domain.
C10_Witness ==
    /\ AuthKey \in DOMAIN storage
    /\ user = null
    /\ error = {"Acces limite aux emails @neemba.com"}

\* A string that may be undefined is falsy: undefined or "".
Falsy(a) == \A v \in a : Len(v) = 0

\* C11 (state part): a logged-in user has role "admin" when the email is
\* ADMIN_EMAIL and role "guest" otherwise, and isAdmin is true exactly for
\* the role "admin".
C11_RoleIsAdminEmail ==
    /\ \A u \in user : u.role = (IF u.email = ADMIN_EMAIL THEN "admin" ELSE "guest")
    /\ isAdmin <=> (\E u \in user : u.role = "admin")
    /\ isAdmin <=> (\E u \in user : u.email = ADMIN_EMAIL)

\* C11 (step part): a login with the admin email, no password supplied and no
\* password configured is rejected with "Mot de passe admin requis" and
\* leaves the user null.
C11_AdminLoginNeedsPassword ==
    LET adminEmail  == ADMIN_EMAIL
        adminEmails == {email \in EmailSample : NormalizedOf[email] = adminEmail}
        noPasswords == {adminPassword \in PasswordSample : Falsy(adminPassword)}
    IN  Falsy(env.VITE_ADMIN_PASSWORD) =>
            \A email \in adminEmails : \A adminPassword \in noPasswords :
                login(email, adminPassword)
                    => (user' = null /\ error' = {"Mot de passe admin requis"})

\* C11: the admin account needs a password (a login with the admin email and
\* no password, supplied or configured, is rejected with "Mot de passe admin
\* requis" and leaves user = null); after a successful login the role is
\* "admin" exactly when the normalized email is ADMIN_EMAIL, "guest"
\* otherwise; isAdmin is true exactly when the role is "admin".
C11_AdminNeedsPassword == []C11_RoleIsAdminEmail /\ [][C11_AdminLoginNeedsPassword]_vars

\* C11 witness: a guest is in the session and a later login with the admin
\* email was rejected for want of a password.
C11_Witness ==
    /\ user = null
    /\ error = {"Mot de passe admin requis"}
    /\ \E u \in StoredUser : u.role = "guest"

LevelRank(level) ==
    CASE level = "Gold" -> 3 [] level = "Silver" -> 2 [] level = "Bronze" -> 1
      [] level = "Non-Scoring" -> 0

\* The slider `id` alone is moved, a non-inverse KPI up or an inverse KPI down
Improves(id) ==
    /\ \A other \in KpiIds \ {id} : inputs'[other] = inputs[other]
    /\ IF KpiById[id].inverse THEN inputs'[id] < inputs[id] ELSE inputs'[id] > inputs[id]

\* C28: the score is monotone in every input: a step that raises one
\* non-inverse KPI or lowers one inverse KPI, the others fixed, lowers
\* neither that KPI's points, nor a category score, nor totalScore, nor the
\* base level.
C28_Step ==
    \A id \in KpiIds :
        (result # null /\ Improves(id)) =>
            LET before == CHOOSE r \in result : TRUE
                after  == CHOOSE r \in result' : TRUE
            IN  /\ after.details[id].points >= before.details[id].points
                /\ FLe(before.foundationScore, after.foundationScore)
                /\ FLe(before.growthScore, after.growthScore)
                /\ FLe(before.totalScore, after.totalScore)
                /\ LevelRank(BaseLevel(after.totalScore)) >= LevelRank(BaseLevel(before.totalScore))

C28_ScoreIsMonotone == [][C28_Step]_vars

\* C28 witness: Service Response raised to its excellent target has taken
\* the total over a level boundary
C28_Witness ==
    /\ inputs["service_response"] = 950
    /\ \E r \in result :
           /\ r.details["service_response"].points = 3
           /\ LevelRank(BaseLevel(r.totalScore)) >
                  LevelRank(BaseLevel(calculateScore([inputs EXCEPT !["service_response"] = 800]).totalScore))

\* C23: the session-storage entry "auth:user" is present exactly when the
\* user is non-null and then holds that user, so that a reload restores the
\* current session.
C23_StorageMirrorsUser ==
    /\ AuthKey \in DOMAIN storage <=> user # null
    /\ StoredUser = user

\* C26 (state part): user and error are never both non-null.
C26_UserOrError == ~(user # null /\ error # null)

\* C26 (step part): a login leaves either the user set and the error null,
\* or, when it is rejected (a foreign address, or the admin address without
\* any password), the user null and the error set; logout leaves both null.
C26_LoginAndLogoutOutcomes ==
    LET adminEmail  == ADMIN_EMAIL
        adminEmails == {email \in EmailSample : NormalizedOf[email] = adminEmail}
        noPasswords == IF Falsy(env.VITE_ADMIN_PASSWORD)
                       THEN {adminPassword \in PasswordSample : Falsy(adminPassword)}
                       ELSE {}
    IN  /\ logout => (user' = null /\ error' = null)
        /\ \A email \in EmailSample : \A adminPassword \in PasswordSample :
               login(email, adminPassword) =>
                   IF \/ email \in ForeignEmails
                      \/ email \in adminEmails /\ adminPassword \in noPasswords
                   THEN user' = null /\ error' # null
                   ELSE user' # null /\ error' = null

\* C26: after any logins and logouts user and error are never both
\* non-null: a successful login leaves the user set and the error null, a
\* rejected login the user null and the error set, logout both null.
C26_NeverUserAndError == []C26_UserOrError /\ [][C26_LoginAndLogoutOutcomes]_vars

\* C26 witness: the admin logged in with a typed password, none configured
C26_Witness ==
    /\ isAdmin
    /\ error = null
    /\ env.VITE_ADMIN_PASSWORD = undefined

----------------------------------------------------------------------------
(* Properties of App *)

\* C12: the Suivi SEP Meeting view is only for authorized users: after any
\* logins, logouts and navigation, when the view is "sepm" and a user is
\* logged in, the user's email is in ALLOWED_ADMINS.
C12_SepmOnlyForAllowed ==
    \A u \in user : view = "sepm" => includes(ALLOWED_ADMINS, u.email)

\* C13: App and SuiviSepMeeting agree on who is authorized: canAccessSepm is
\* true exactly when the page's isAllowed is true, so whoever App lets
\* into the Suivi SEP Meeting view is not shown "Acces Restreint".
C13_ListsAgree == canAccessSepm <=> isAllowed

----------------------------------------------------------------------------
(* Properties of the productivity pipeline *)

Groupings == {"global", "month", "team", "technician"}

\* The keys of a grouping over the rows of the table
ScopeKeys(table, grouping) ==
    CASE grouping = "global"     -> {"all"}
      [] grouping = "month"      -> {MonthOf(r.jour) : r \in table}
      [] grouping = "team"       -> {r.equipe : r \in table}
      [] grouping = "technician" -> {r.technicien : r \in table}

\* The rows of the table in the scope of one key of a grouping
ScopeRows(table, grouping, key) ==
    CASE grouping = "global"     -> table
      [] grouping = "month"      -> {r \in table : MonthOf(r.jour) = key}
      [] grouping = "team"       -> {r \in table : r.equipe = key}
      [] grouping = "technician" -> {r \in table : r.technicien = key}

\* The aggregates a response gives for a grouping, by key
AggregatesOf(resp, grouping) ==
    CASE grouping = "global"     -> [k \in {"all"} |-> resp.global]
      [] grouping = "month"      -> resp.monthly
      [] grouping = "team"       -> resp.teams
      [] grouping = "technician" -> resp.technicians

\* The aggregate a is sum/sum over the rows: the sums are the sums of the
\* rows, the ratio is a fraction with a non-zero denominator, it is 0 when no
\* hours were worked and facturable/heures otherwise.
IsSumOverSum(a, rows) ==
    LET f == SumField(rows, "facturable")
        h == SumField(rows, "heures_total")
    IN  /\ a.facturable = f /\ a.heures = h
        /\ a.productivite[2] > 0
        /\ h = 0 => a.productivite[1] = 0
        /\ h > 0 => a.productivite[1] * h = f * a.productivite[2]

RatiosAreSumOverSum(table, resp) ==
    \A grouping \in Groupings :
        /\ DOMAIN AggregatesOf(resp, grouping) = ScopeKeys(table, grouping)
        /\ \A key \in ScopeKeys(table, grouping) :
               IsSumOverSum(AggregatesOf(resp, grouping)[key], ScopeRows(table, grouping, key))

\* C14: for every grouping (global, month, team, technician) and every
\* table, the analytics computed from the table give, for every key, the
\* ratio sum(facturable) / sum(heures) over the rows in scope, 0 when the
\* sum of hours is 0 (also when hours were billed), and never an undefined
\* or infinite value.
C14_RatioIsSumOverSum ==
    [][response' # response =>
           RatiosAreSumOverSum(store, CHOOSE resp \in response' : TRUE)]_vars

\* C14 witness: analytics were computed, and a technician has billed hours
\* and no worked hours; the ratio is 0.
C14_Witness ==
    \E resp \in response : \E t \in DOMAIN resp.technicians :
        /\ resp.technicians[t].heures = 0
        /\ resp.technicians[t].facturable > 0
        /\ resp.technicians[t].productivite = <<0, 1>>
        /\ Cardinality(DOMAIN resp.monthly) = 2

\* C15: aggregation is associative: for every partition of the rows of the
\* table into two disjoint sets, the aggregate of all the rows has the same
\* sums and the same ratio as the aggregates of the two sets recombined by
\* adding their sums.
C15_AggregationIsAssociative ==
    LET df == load_from_db(store)
    IN  \A A \in SUBSET df : Agg(df) = combine(Agg(A), Agg(df \ A))

\* C15 witness: an upload left a table that splits into two non-empty parts
\* with different ratios, neither of them the ratio of the whole.
C15_Witness ==
    /\ store \notin StoreSample
    /\ LET df == load_from_db(store)
       IN  \E A \in SUBSET df :
               /\ A # {} /\ A # df
               /\ Agg(A).productivite # Agg(df \ A).productivite
               /\ Agg(A).productivite # Agg(df).productivite
               /\ Agg(df \ A).productivite # Agg(df).productivite

\* The sum of a column of the uploaded file over the rows with index in I,
\* an empty cell counting for 0
RECURSIVE FileSum(_, _)
FileSum(I, col) ==
    IF I = {} THEN 0
    ELSE LET i == CHOOSE i \in I : TRUE
             v == IF file[i][col] = {} THEN 0 ELSE CHOOSE n \in file[i][col] : TRUE
         IN  v + FileSum(I \ {i}, col)

\* The rows of the uploaded file with the date, technician and team of r
FileRowsOf(r) ==
    {i \in DOMAIN file :
        file[i].date = r.jour /\ file[i].nom = r.technicien /\ file[i].equipe = r.equipe}

\* Every row an upload writes holds the sums of the file's rows of its date,
\* technician and team.
DuplicatesAreSummed(written) ==
    \A r \in written :
        /\ FileRowsOf(r) # {}
        /\ r.facturable = FileSum(FileRowsOf(r), "Facturable")
        /\ r.heures_total = FileSum(FileRowsOf(r), "Hr_Totale")

\* rows with the row-by-row productivite column wiped out
WithoutRowRatios(rows) == {[r EXCEPT !.productivite = {}] : r \in rows}

\* The aggregates of every technician, team and month are sum/sum of the
\* rows and stay the same when the row-by-row productivite column is wiped.
RowRatiosAreUnused(table, resp) ==
    LET df == load_from_db(table)
    IN  /\ resp.global = Agg(WithoutRowRatios(df))
        /\ \A t \in DOMAIN resp.technicians :
               LET rows == {r \in df : r.nom = t}
                   f    == SumField(rows, "Facturable")
                   h    == SumField(rows, "heures_travaillees")
               IN  /\ resp.technicians[t] = Agg(WithoutRowRatios(rows))
                   /\ h > 0 => resp.technicians[t].productivite[1] * h
                                   = f * resp.technicians[t].productivite[2]

\* C16: ratios are never averaged across rows: an upload sums the rows of
\* one technician, day and team before any ratio is computed, and the
\* analytics give sum/sum, whatever the row-by-row productivite column holds
\* (rows (8, 8) and (0, 2) give 8/10, not the mean 1/2 of 1 and 0).
C16_NoMeanOfRatios ==
    [][/\ store' # store => DuplicatesAreSummed(store' \ store)
       /\ response' # response =>
              RowRatiosAreUnused(store, CHOOSE resp \in response' : TRUE)]_vars

\* C16 witness: the file is the rows (8, 8) and (0, 2) of one technician;
\* after the upload and the analytics the technician's ratio is 4/5.
C16_Witness ==
    /\ Len(file) = 2
    /\ {<<file[i].Facturable, file[i].Hr_Totale>> : i \in DOMAIN file} = {<<{8}, {8}>>, <<{0}, {2}>>}
    /\ store = {[jour |-> 2, technicien |-> "t1", equipe |-> "A",
                 facturable |-> 8, heures_total |-> 10]}
    /\ \E resp \in response : resp.technicians["t1"].productivite = <<4, 5>>

\* C17: after an upload the table holds exactly one row per technician and
\* day, and for every technician and day of the file that row's facturable
\* and heures_total are the sums over all the file's rows of that technician
\* and day, also when they are under different teams.
C17_OneSummedRowPerTechnicianDay ==
    [][upload =>
          /\ \A r, s \in store' : (r.technicien = s.technicien /\ r.jour = s.jour) => r = s
          /\ \A i \in DOMAIN file :
                LET I == {j \in DOMAIN file :
                             file[j].nom = file[i].nom /\ file[j].date = file[i].date}
                IN  \E r \in store' :
                       /\ r.technicien = file[i].nom /\ r.jour = file[i].date
                       /\ r.facturable = FileSum(I, "Facturable")
                       /\ r.heures_total = FileSum(I, "Hr_Totale")]_vars

----------------------------------------------------------------------------
(* Properties of the exhaustivity matrix *)

SixStatuses ==
    {"Weekend OK", "Travail weekend", "Non conforme", "Incomplet", "Conforme", "Surpointage"}

\* The case of each status; hours within the tolerance of the expected hours
\* count as equal to them.
StatusCase(status, weekend, hours) ==
    LET within == hours >= EXPECTED_HOURS - TOLERANCE /\ hours <= EXPECTED_HOURS + TOLERANCE
    IN  CASE status = "Weekend OK"      -> weekend /\ hours = 0
          [] status = "Travail weekend" -> weekend /\ hours > 0
          [] status = "Non conforme"    -> ~weekend /\ hours = 0
          [] status = "Incomplet"       -> ~weekend /\ 0 < hours /\ hours < EXPECTED_HOURS /\ ~within
          [] status = "Conforme"        -> ~weekend /\ hours > 0 /\ within
          [] status = "Surpointage"     -> ~weekend /\ hours > EXPECTED_HOURS /\ ~within

\* The date of a day of the month of a period
DateOfDay(period, day) == CHOOSE date \in DatesOf(period) : DayOfMonth(date) = day

\* The technicians a response lists for a period
Technicians_present(resp, p) == DOMAIN resp.exhaustivity.per_period[p].statuts

\* The cells of a response: period, technician, day of the month
CellsOf(resp) ==
    UNION {{<<p, t, DayOfMonth(date)>> : t \in Technicians_present(resp, p), date \in DatesOf(p)}
              : p \in resp.exhaustivity.periods}

SharedPeriods(t) == DOMAIN series.global \cap DOMAIN series.teams[t]

ExampleSeries ==
    /\ series.global = [p \in 1..3 |-> <<70, 75, 80>>[p]]
    /\ DOMAIN series.teams = {"X", "Y"}
    /\ series.teams["X"] = [p \in 1..3 |-> <<71, 76, 81>>[p]]
    /\ series.teams["Y"] = [p \in 1..3 |-> <<80, 70, 75>>[p]]

C19_NullWitness ==
    /\ data # null
    /\ driverTeam = null
    /\ ~DriverCardShown
    /\ DOMAIN series.teams = {"X", "Y"}
    /\ DOMAIN series.global = 1..3

\* The configuration is valid: no negative weight, the Foundation weights sum
\* to 40 and the Growth weights to 60
ValidConfiguration(cfg) ==
    /\ \A k \in Range(cfg.foundation \o cfg.growth) : k.weight >= 0
    /\ SumOfWeights(cfg.foundation, Len(cfg.foundation)) = 40
    /\ SumOfWeights(cfg.growth, Len(cfg.growth)) = 60

ShippedConfigAgrees == config = ShippedConfig => result \in {null, {calculateScore(inputs)}}

\* The documented class of an LLTI value v (tenths of a day)
LltiLabels == {"Excellent", "Advanced", "Emerging", "À améliorer"}

LltiClass(label, v) ==
    CASE label = "Excellent"   -> v < 70
      [] label = "Advanced"    -> 70 <= v /\ v < 170
      [] label = "Emerging"    -> 170 <= v /\ v <= 210
      [] label = "À améliorer" -> v > 210

LltiColour(label) ==
    CASE label = "Excellent"   -> "emerald"
      [] label = "Advanced"    -> "yellow"
      [] label = "Emerging"    -> "orange"
      [] label = "À améliorer" -> "rose"

\* C22: a loaded LLTI value has exactly one label, the one whose documented
\* interval holds the value (Excellent below 7, Advanced from 7 to below 17,
\* Emerging from 17 through 21, À améliorer above 21), the badge carries
\* that label's colour, and the ring has the colour of the same class.
C22_BadgeFollowsThresholds ==
    \A v \in lltiMoyenne : \A b \in badge :
        /\ b.label \in LltiLabels
        /\ \A label \in LltiLabels : LltiClass(label, v) <=> b.label = label
        /\ b.color = "text-" \o LltiColour(b.label) \o "-200"
        /\ b.bgColor = "bg-" \o LltiColour(b.label) \o "-500/20"
        /\ lltiRingColor = LltiColour(b.label)

\* C22 witness: 21 days exactly, the inclusive end of Emerging
C22_Witness ==
    /\ lltiMoyenne = {210}
    /\ \E b \in badge : b.label = "Emerging"
    /\ lltiRingColor = "orange"

\* The points calcPoints gives the inverse KPI "llti" for the loaded value
LltiPoints == calcPoints(lltiMoyenne, KpiById["llti"])

\* C27: the tier of the badge is the tier of the simulator's points for the
\* same LLTI value: Excellent exactly with 3 points, Advanced with 2,
\* Emerging with 1, À améliorer with 0.
C27_BadgeAgreesWithPoints ==
    \A b \in badge :
        /\ b.label = "Excellent" <=> LltiPoints = 3
        /\ b.label = "Advanced" <=> LltiPoints = 2
        /\ b.label = "Emerging" <=> LltiPoints = 1
        /\ b.label = "À améliorer" <=> LltiPoints = 0

----------------------------------------------------------------------------
(* Properties of useUpload *)

AllSettled == \A i \in DOMAIN uploads : uploads[i].settled # null

\* C24: once every upload has completed, the state of the hook is the
\* outcome of the upload that was started last.
C24_LastStartedWins ==
    (uploads # <<>> /\ AllSettled) =>
        \E o \in uploads[Len(uploads)].settled :
            state = [loading |-> FALSE, error |-> o.error, result |-> o.result]

\* C25 (state part): while loading, error and result are null, and error and
\* result are never both non-null.
C25_StateIsConsistent ==
    /\ state.loading => (state.error = null /\ state.result = null)
    /\ ~(state.error # null /\ state.result # null)

\* C25 (step part): the step in which the request of an upload settles
\* leaves loading = false.
C25_SettledStopsLoading ==
    (\E i \in DOMAIN uploads : uploads[i].settled = null /\ uploads'[i].settled # null)
        => ~state'.loading

\* C25: under any interleaving of upload starts, successes and failures,
\* loading implies error = null and result = null, error and result are
\* never both non-null, and an upload whose request settles leaves
\* loading = false.
C25_UploadStateInvariant == []C25_StateIsConsistent /\ [][C25_SettledStopsLoading]_vars

\* C25 witness: two uploads overlapped, the first failed while the second
\* is still in flight
C25_Witness ==
    /\ Len(uploads) = 2
    /\ uploads[1].settled # null
    /\ uploads[2].settled = null
    /\ ~state.loading
    /\ state.error # null

====
